---- MODULE Spec2Model ----
(***************************************************************************)
(* A model of src/src/cpu.rs: the packed 8-bit Status register with its    *)
(* bit mutators, and the CPU's fetch-decode-execute loop (CPU::interpret)  *)
(* over the four implemented opcodes BRK, LDA #imm, TAX and INX.           *)
(*                                                                         *)
(* One loop iteration of interpret is one step of the model.  The two      *)
(* ways a Rust build treats `self.pc += 1` on a u8 (overflow checks on:    *)
(* panic; off: wrap to 0) are both modelled; the build is chosen once, in  *)
(* the initial state.  Indexing a Vec out of bounds and todo!() panic.     *)
(***************************************************************************)
EXTENDS Integers, Sequences, FiniteSets

\* ------------------------------------------------------------------ bounds

\* Longest "short" program the caller passes to interpret.
MaxLen == 3

\* How many field assignments / flag mutations the caller makes on the CPU
\* before the interpret call.
MaxSetup == 2

\* ----------------------------------------------------------- u8 arithmetic

\* Number of values of a u8 (reg_a, reg_x, pc, Status.register).
U8 == 256

Byte == 0 .. (U8 - 1)

\* Bit i (0 = least significant) of the byte r.
BitAt(r, i) == (r \div (2 ^ i)) % 2

RECURSIVE FromBits(_)
\* The byte whose set bits are exactly the positions in S.
FromBits(S) ==
    IF S = {} THEN 0
    ELSE LET i == CHOOSE j \in S : TRUE
         IN  (2 ^ i) + FromBits(S \ {i})

\* a | b, a & b, a ^ b and !a on u8.
BitOr(a, b) == FromBits({i \in 0 .. 7 : BitAt(a, i) = 1 \/ BitAt(b, i) = 1})

BitAnd(a, b) == FromBits({i \in 0 .. 7 : BitAt(a, i) = 1 /\ BitAt(b, i) = 1})

BitXor(a, b) == FromBits({i \in 0 .. 7 : BitAt(a, i) # BitAt(b, i)})

BitNot(a) == (U8 - 1) - a

\* 1 << pos on u8, for pos in 0..7.
Shl1(pos) == (2 ^ pos) % U8

\* An addition that stops at 255 instead of wrapping.
wrapping_add_saturating(a, b) == IF a + b >= U8 THEN U8 - 1 ELSE a + b

\* u8::wrapping_add
wrapping_add(a, b) == (a + b) % U8

\* ------------------------------------------------------------------ Status

\* Flag with the discriminants counted down without the gap at 5.
Flag_nogap == [N |-> 7, V |-> 6, B |-> 5, D |-> 4, I |-> 3, Z |-> 2, C |-> 1]

\* enum Flag: the discriminant of each flag is its bit position.
Flag == [N |-> 7, V |-> 6, B |-> 4, D |-> 3, I |-> 2, Z |-> 1, C |-> 0]

Flags == DOMAIN Flag

\* Status::read_bit
read_bit(register, pos) == BitAnd(register, Shl1(pos))

\* Status::set_bit
set_bit(register, bit) == BitOr(register, Shl1(Flag[bit]))

\* unset_bit without the `!`: keeps only the named bit.
unset_bit_nonot(register, bit) == BitAnd(register, Shl1(Flag[bit]))

\* unset_bit with `&` for `&=`: the register is not written.
unset_bit_nowrite(register, bit) == register

\* Status::unset_bit
unset_bit(register, bit) == BitAnd(register, BitNot(Shl1(Flag[bit])))

\* toggle_bit with `|=` for `^=`: it can set the bit but never clear it.
toggle_bit_or(register, bit) == BitOr(register, Shl1(Flag[bit]))

\* Status::toggle_bit
toggle_bit(register, bit) == BitXor(register, Shl1(Flag[bit]))

\* update_nf_flags without its else branches: the flags are only ever set.
update_nf_flags_sticky(register, r) ==
    LET z == IF r = 0 THEN set_bit(register, "Z") ELSE register
    IN  IF BitAnd(r, 128) # 0 THEN set_bit(z, "N") ELSE z

\* CPU::update_nf_flags, as a function from the old register to the new one.
update_nf_flags(register, r) ==
    LET z == IF r = 0 THEN set_bit(register, "Z") ELSE unset_bit(register, "Z")
    IN  IF BitAnd(r, 128) # 0 THEN set_bit(z, "N") ELSE unset_bit(z, "N")

\* ------------------------------------------------------------------- state

VARIABLES
    reg_a,           \* CPU.reg_a
    reg_x,           \* CPU.reg_x
    status,          \* CPU.status.register
    pc,              \* CPU.pc
    program,         \* the Vec<u8> passed to the interpret call in progress
    mode,            \* where the caller is: "idle" (no call yet), "running"
                     \* (inside the loop), "halted" (interpret returned),
                     \* "failed" (interpret panicked); "call"/"return" for a
                     \* lone update_nf_flags call
    err,             \* which panic: "none", "bounds", "overflow", "todo"
    pc0,             \* the value of pc when the interpret call was entered
    reg_x0,          \* the value of reg_x when the interpret call was entered
    runs,            \* interpret calls entered so far
    call,            \* the latest direct call of a Status method: its name,
                     \* its flag, the register before it and what it returned
    rd,              \* the program indices read by the latest loop iteration
    result,          \* the argument of the latest update_nf_flags call
    overflowChecks,  \* the build: TRUE when `+=` on u8 panics on overflow
    setups           \* caller's field assignments and flag mutations so far

vars ==
    <<reg_a, reg_x, status, pc, program, mode, err, pc0, reg_x0, runs, call,
      rd, result, overflowChecks, setups>>

\* ---------------------------------------------------------- caller's inputs

\* Bytes short programs are made of: the four implemented opcodes (0x00 BRK,
\* 0xA9 LDA, 0xAA TAX, 0xE8 INX) and 0x05, which is no implemented opcode.
\* As LDA operands they give a zero, a positive and three negative values.
Alphabet == {0, 169, 170, 232, 5}

ShortPrograms == UNION {[1 .. n -> Alphabet] : n \in 0 .. MaxLen}

\* n bytes of b.
Fill(n, b) == [i \in 1 .. n |-> b]

\* Programs that reach the top of the u8 program counter: 0xE8 (INX) up to
\* the last bytes, then one of these endings.
InxTails ==
    { <<232>>,            \* 255 bytes, no BRK
      <<232, 232>>,       \* 256 bytes, no BRK
      <<232, 232, 232>>,  \* 257 bytes, no BRK
      <<232, 0>>,         \* BRK at index 255
      <<232, 5>> }        \* unimplemented opcode at index 255

\* The same with 0xAA (TAX) up to the last bytes.
TaxTails ==
    { <<169, 0>>,         \* LDA at index 254, its operand at index 255
      <<170, 169>> }      \* LDA at index 255

LongPrograms ==
    {Fill(U8 - 2, 232) \o t : t \in InxTails} \cup
    {Fill(U8 - 2, 170) \o t : t \in TaxTails}

\* A program longer than MaxLen in which 0x00 is an LDA operand.
ExamplePrograms == {<<169, 0, 232, 0>>}

Programs == ShortPrograms \cup LongPrograms \cup ExamplePrograms

\* Values the caller assigns to the pub fields reg_a and reg_x (the tests
\* assign 10 and 0xff), and to pc.
RegValues == {10, 255}

PcValues == {1, U8 - 1}

\* No Status method has been called directly yet.
NoCall == [op |-> "none", bit |-> "C", before |-> 0, ret |-> 0]

\* --------------------------------------------------------------- CPU::new

Init ==
    /\ reg_a = 0
    /\ reg_x = 0
    /\ status = 0
    /\ pc = 0
    /\ program = <<>>
    /\ mode = "idle"
    /\ err = "none"
    /\ pc0 = 0
    /\ reg_x0 = 0
    /\ runs = 0
    /\ call = NoCall
    /\ rd = <<>>
    /\ result = 0
    /\ overflowChecks \in BOOLEAN
    /\ setups = 0

\* ------------------------------------------------- the caller, between calls

CanSetup == mode = "idle" /\ setups < MaxSetup

\* cpu.reg_a = v
SetA(v) ==
    /\ CanSetup
    /\ reg_a' = v
    /\ setups' = setups + 1
    /\ UNCHANGED <<reg_x, status, pc, program, mode, err, pc0, rd, result, overflowChecks, reg_x0, runs, call>>

\* cpu.reg_x = v
SetX(v) ==
    /\ CanSetup
    /\ reg_x' = v
    /\ setups' = setups + 1
    /\ UNCHANGED <<reg_a, status, pc, program, mode, err, pc0, rd, result, overflowChecks, reg_x0, runs, call>>

\* cpu.pc = v
SetPc(v) ==
    /\ CanSetup
    /\ pc' = v
    /\ setups' = setups + 1
    /\ UNCHANGED <<reg_a, reg_x, status, program, mode, err, pc0, rd, result, overflowChecks, reg_x0, runs, call>>

\* cpu.status_mut().set_bit(f)
SetBit(f) ==
    /\ CanSetup
    /\ status' = set_bit(status, f)
    /\ setups' = setups + 1
    /\ UNCHANGED <<reg_a, reg_x, pc, program, mode, err, pc0, rd, result, overflowChecks, reg_x0, runs, call>>

\* cpu.status_mut().unset_bit(f)
UnsetBit(f) ==
    /\ CanSetup
    /\ status' = unset_bit(status, f)
    /\ setups' = setups + 1
    /\ UNCHANGED <<reg_a, reg_x, pc, program, mode, err, pc0, rd, result, overflowChecks, reg_x0, runs, call>>

\* cpu.status_mut().toggle_bit(f)
ToggleBit(f) ==
    /\ CanSetup
    /\ status' = toggle_bit(status, f)
    /\ setups' = setups + 1
    /\ UNCHANGED <<reg_a, reg_x, pc, program, mode, err, pc0, rd, result, overflowChecks, reg_x0, runs, call>>

\* cpu.interpret(p): entry into the 'instruction_cycle loop.  The program
\* counter is left as it is.
Interpret(p) ==
    /\ mode = "idle"
    /\ program' = p
    /\ mode' = "running"
    /\ pc0' = pc
    /\ reg_x0' = reg_x
    /\ runs' = runs + 1
    /\ rd' = <<>>
    /\ UNCHANGED <<reg_a, reg_x, status, pc, err, result, overflowChecks, setups, call>>

\* ------------------------------------------- one iteration of the loop

Running == mode = "running"

\* program[self.pc as usize] is inside the Vec.
InBounds(i) == i < Len(program)

\* program[i as usize], for an index inside the Vec.
At(i) == program[i + 1]

\* `self.pc += 1` from the value p panics (overflow checks on, p = 255).
IncPanics(p) == overflowChecks /\ p + 1 >= U8

\* The value `self.pc += 1` stores when it does not panic.
Inc(p) == (p + 1) % U8

\* A panic: the call ends, nothing further is written.
Panic(kind) ==
    /\ mode' = "failed"
    /\ err' = kind
    /\ UNCHANGED <<program, pc0, overflowChecks, setups, reg_x0, runs, call>>

\* The loop goes round again.
Continue ==
    /\ mode' = "running"
    /\ err' = err
    /\ UNCHANGED <<program, pc0, overflowChecks, setups, reg_x0, runs, call>>

\* An unchecked fetch past the end that reads a zero byte: the run halts.
FetchOutOfBounds_halts ==
    /\ Running
    /\ ~InBounds(pc)
    /\ mode' = "halted"
    /\ pc' = Inc(pc)
    /\ rd' = <<pc>>
    /\ UNCHANGED <<reg_a, reg_x, status, program, err, pc0, result, overflowChecks, setups, reg_x0, runs, call>>

\* line 153: the opcode fetch indexes past the end of the Vec.
FetchOutOfBounds ==
    /\ Running
    /\ ~InBounds(pc)
    /\ Panic("bounds")
    /\ rd' = <<>>
    /\ UNCHANGED <<reg_a, reg_x, status, pc, result>>

\* line 154: the opcode is fetched, `self.pc += 1` overflows and panics.
FetchPcOverflow ==
    /\ Running
    /\ InBounds(pc)
    /\ IncPanics(pc)
    /\ Panic("overflow")
    /\ rd' = <<pc>>
    /\ UNCHANGED <<reg_a, reg_x, status, pc, result>>

\* The opcode fetch and the increment of lines 153-154 succeed.
FetchOk ==
    /\ Running
    /\ InBounds(pc)
    /\ ~IncPanics(pc)

\* ... and the opcode fetched is op.
Fetched(op) == FetchOk /\ At(pc) = op

\* 0x00 => break 'instruction_cycle
BRK ==
    /\ Fetched(0)
    /\ pc' = Inc(pc)
    /\ rd' = <<pc>>
    /\ mode' = "halted"
    /\ UNCHANGED <<reg_a, reg_x, status, program, err, pc0, result, overflowChecks, setups, reg_x0, runs, call>>

\* 0xA9, line 161: the operand read indexes past the end of the Vec.
LDAOutOfBounds ==
    /\ Fetched(169)
    /\ ~InBounds(Inc(pc))
    /\ pc' = Inc(pc)
    /\ rd' = <<pc>>
    /\ Panic("bounds")
    /\ UNCHANGED <<reg_a, reg_x, status, result>>

\* LDA storing the operand before the increment that panics.
LDAPcOverflow_late ==
    /\ Fetched(169)
    /\ InBounds(Inc(pc))
    /\ IncPanics(Inc(pc))
    /\ pc' = Inc(pc)
    /\ rd' = <<pc, Inc(pc)>>
    /\ reg_a' = At(Inc(pc))
    /\ Panic("overflow")
    /\ UNCHANGED <<reg_x, status, result>>

\* 0xA9, line 162: the operand is read, `self.pc += 1` overflows and panics.
LDAPcOverflow ==
    /\ Fetched(169)
    /\ InBounds(Inc(pc))
    /\ IncPanics(Inc(pc))
    /\ pc' = Inc(pc)
    /\ rd' = <<pc, Inc(pc)>>
    /\ Panic("overflow")
    /\ UNCHANGED <<reg_a, reg_x, status, result>>

\* LDA that does not step over its operand: the operand is fetched as the
\* next opcode.
LDA_noskip ==
    /\ Fetched(169)
    /\ InBounds(Inc(pc))
    /\ ~IncPanics(Inc(pc))
    /\ LET param == At(Inc(pc))
       IN  /\ pc' = Inc(pc)
           /\ rd' = <<pc, Inc(pc)>>
           /\ reg_a' = param
           /\ result' = param
           /\ status' = update_nf_flags(status, param)
    /\ Continue
    /\ UNCHANGED reg_x

\* 0xA9: LDA immediate.
LDA ==
    /\ Fetched(169)
    /\ InBounds(Inc(pc))
    /\ ~IncPanics(Inc(pc))
    /\ LET param == At(Inc(pc))
       IN  /\ pc' = Inc(Inc(pc))
           /\ rd' = <<pc, Inc(pc)>>
           /\ reg_a' = param
           /\ result' = param
           /\ status' = update_nf_flags(status, param)
    /\ Continue
    /\ UNCHANGED reg_x

\* TAX that sets the flags before the copy, from the old index register.
TAX_flagsOfOldX ==
    /\ Fetched(170)
    /\ pc' = Inc(pc)
    /\ rd' = <<pc>>
    /\ reg_x' = reg_a
    /\ result' = reg_x
    /\ status' = update_nf_flags(status, reg_x)
    /\ Continue
    /\ UNCHANGED reg_a

\* 0xAA: TAX.
TAX ==
    /\ Fetched(170)
    /\ pc' = Inc(pc)
    /\ rd' = <<pc>>
    /\ reg_x' = reg_a
    /\ result' = reg_a
    /\ status' = update_nf_flags(status, reg_a)
    /\ Continue
    /\ UNCHANGED reg_a

\* INX that increments the accumulator instead of the index register.
INX_onA ==
    /\ Fetched(232)
    /\ pc' = Inc(pc)
    /\ rd' = <<pc>>
    /\ reg_a' = wrapping_add(reg_a, 1)
    /\ result' = wrapping_add(reg_a, 1)
    /\ status' = update_nf_flags(status, wrapping_add(reg_a, 1))
    /\ Continue
    /\ UNCHANGED reg_x

\* 0xE8: INX.
INX ==
    /\ Fetched(232)
    /\ pc' = Inc(pc)
    /\ rd' = <<pc>>
    /\ reg_x' = wrapping_add(reg_x, 1)
    /\ result' = wrapping_add(reg_x, 1)
    /\ status' = update_nf_flags(status, wrapping_add(reg_x, 1))
    /\ Continue
    /\ UNCHANGED reg_a

\* An unknown opcode that is skipped instead of stopping the run.
Unimplemented_skip ==
    /\ FetchOk
    /\ At(pc) \notin {0, 169, 170, 232}
    /\ pc' = Inc(pc)
    /\ rd' = <<pc>>
    /\ Continue
    /\ UNCHANGED <<reg_a, reg_x, status, result>>

\* other => todo!(..)
Unimplemented ==
    /\ FetchOk
    /\ At(pc) \notin {0, 169, 170, 232}
    /\ pc' = Inc(pc)
    /\ rd' = <<pc>>
    /\ Panic("todo")
    /\ UNCHANGED <<reg_a, reg_x, status, result>>

Step ==
    \/ FetchOutOfBounds
    \/ FetchPcOverflow
    \/ BRK
    \/ LDAOutOfBounds
    \/ LDAPcOverflow
    \/ LDA
    \/ TAX
    \/ INX
    \/ Unimplemented

Setup ==
    \/ \E v \in RegValues : SetA(v)
    \/ \E v \in RegValues : SetX(v)
    \/ \E v \in PcValues : SetPc(v)
    \/ \E f \in Flags : SetBit(f)
    \/ \E f \in Flags : UnsetBit(f)
    \/ \E f \in Flags : ToggleBit(f)

Next ==
    \/ Setup
    \/ \E p \in Programs : Interpret(p)
    \/ Step

Spec == Init /\ [][Next]_vars

\* A freshly created CPU whose caller calls interpret at once, as
\* test_5_ops_working_together and test_unknown_case do.
NextRun ==
    \/ \E p \in Programs : Interpret(p)
    \/ Step

\* interpret runs to completion on the calling thread: a call that has been
\* entered keeps taking loop iterations while one is possible.
FairRun == Init /\ [][NextRun]_vars /\ WF_vars(Step)

\* ------------------------------------------- a fresh CPU and one program

\* [0xA9, v, 0xAA, 0xE8, 0x00] for every byte v (test_5_ops_working_together
\* has v = 0xC0).
LoadTransferIncrement == {<<169, v, 170, 232, 0>> : v \in Byte}

FreshPrograms == Programs \cup LoadTransferIncrement

\* CPU::new(), then interpret at once.
NextFresh ==
    \/ \E p \in FreshPrograms : Interpret(p)
    \/ Step

SpecFresh == Init /\ [][NextFresh]_vars

\* ------------------------------------------ several interpret calls in a row

\* How many interpret calls the caller makes on one CPU.
MaxRuns == 2

\* Programs passed to the calls after the first.
RerunPrograms == {<<>>, <<0>>, <<232, 232, 0>>, <<169, 5, 170, 0>>}

\* cpu.interpret(p) on a CPU whose previous interpret call returned.  The
\* program counter is left where that call left it.
Reinterpret(p) ==
    /\ mode = "halted"
    /\ runs < MaxRuns
    /\ program' = p
    /\ mode' = "running"
    /\ pc0' = pc
    /\ reg_x0' = reg_x
    /\ runs' = runs + 1
    /\ rd' = <<>>
    /\ UNCHANGED <<reg_a, reg_x, status, pc, err, result, overflowChecks, setups, call>>

\* The caller assigns reg_a and reg_x, calls interpret, and calls it again
\* after it returns; the status is written by interpret alone.
NextRuns ==
    \/ \E v \in RegValues : SetA(v)
    \/ \E v \in RegValues : SetX(v)
    \/ \E p \in Programs : Interpret(p)
    \/ \E p \in RerunPrograms : Reinterpret(p)
    \/ Step

SpecRuns == Init /\ [][NextRuns]_vars

\* ------------------------------------------------- the Status methods alone

\* Status::n, v, b, d, i, z, c
Status_n(register) == read_bit(register, 7)

Status_v(register) == read_bit(register, 6)

Status_b(register) == read_bit(register, 4)

Status_d(register) == read_bit(register, 3)

Status_i(register) == read_bit(register, 2)

Status_z(register) == read_bit(register, 1)

Status_c(register) == read_bit(register, 0)

\* The read accessor of flag f.
Accessor(register, f) ==
    CASE f = "N" -> Status_n(register)
      [] f = "V" -> Status_v(register)
      [] f = "B" -> Status_b(register)
      [] f = "D" -> Status_d(register)
      [] f = "I" -> Status_i(register)
      [] f = "Z" -> Status_z(register)
      [] f = "C" -> Status_c(register)

\* A direct call of a Status method on the CPU's status, outside interpret:
\* the register becomes after and the method returns ret.
StatusCall(op, f, after, ret) ==
    /\ mode = "idle"
    /\ status' = after
    /\ call' = [op |-> op, bit |-> f, before |-> status, ret |-> ret]
    /\ UNCHANGED <<reg_a, reg_x, pc, program, mode, err, pc0, reg_x0, runs, rd,
                   result, overflowChecks, setups>>

\* cpu.status_mut().set_bit(f), any number of times
CallSetBit(f) == StatusCall("set_bit", f, set_bit(status, f), 0)

\* cpu.status_mut().unset_bit(f)
CallUnsetBit(f) == StatusCall("unset_bit", f, unset_bit(status, f), 0)

\* cpu.status_mut().toggle_bit(f)
CallToggleBit(f) == StatusCall("toggle_bit", f, toggle_bit(status, f), 0)

\* cpu.status().n() and the other read accessors
CallRead(f) == StatusCall("read", f, status, Accessor(status, f))

NextStatus ==
    \/ \E f \in Flags : CallSetBit(f)
    \/ \E f \in Flags : CallUnsetBit(f)
    \/ \E f \in Flags : CallToggleBit(f)
    \/ \E f \in Flags : CallRead(f)

SpecStatus == Init /\ [][NextStatus]_vars

\* --------------------------------------- update_nf_flags as a pure function

\* The registers a Status can hold: the mutators reach every flag bit, and
\* no Flag names bit 5.
StatusValues == {r \in Byte : BitAt(r, 5) = 0}

\* A CPU about to call update_nf_flags(result), with any status and result.
InitNF ==
    /\ reg_a = 0
    /\ reg_x = 0
    /\ status \in StatusValues
    /\ pc = 0
    /\ program = <<>>
    /\ mode = "call"
    /\ err = "none"
    /\ pc0 = 0
    /\ reg_x0 = 0
    /\ runs = 0
    /\ call = NoCall
    /\ rd = <<>>
    /\ result \in Byte
    /\ overflowChecks \in BOOLEAN
    /\ setups = 0

\* self.update_nf_flags(result)
ApplyNF ==
    /\ mode = "call"
    /\ status' = update_nf_flags(status, result)
    /\ mode' = "return"
    /\ UNCHANGED <<reg_a, reg_x, pc, program, err, pc0, rd, result, overflowChecks, setups, reg_x0, runs, call>>

NextNF == ApplyNF

SpecNF == InitNF /\ [][NextNF]_vars

\* ----------------------------------------------------------------- claims

\* Flag f is set in the register.
FlagSet(register, f) == BitAt(register, Flag[f]) = 1

\* The frame of the zero/negative policy: C, V, D, I, B and the reserved bit 5.
FrameBits == {0, 2, 3, 4, 5, 6}

\* The loop is about to fetch the byte b in opcode position.
Fetching(b) == mode = "running" /\ pc < Len(program) /\ program[pc + 1] = b

\* `self.pc += 1` is about to panic at the top of the u8 range.
AtTop == overflowChecks /\ pc = U8 - 1

\* Z and N in the register are those of the byte v.
ReflectsNZ(register, v) ==
    /\ FlagSet(register, "Z") <=> (v = 0)
    /\ FlagSet(register, "N") <=> (v >= 128)

\* C1: after update_nf_flags(v) on any status, Z is set iff v = 0 and N is set
\* iff v & 0x80 # 0.
C1_NFPolicy ==
    mode = "return" =>
        /\ FlagSet(status, "Z") <=> (result = 0)
        /\ FlagSet(status, "N") <=> (BitAnd(result, 128) # 0)

\* C1 witness: the policy has been applied to 0x80 on a status holding C, V and Z.
C1_Witness ==
    /\ mode = "return"
    /\ result = 128
    /\ status = FromBits({0, 6, 7})

\* C2: every loop iteration of interpret leaves C, V, D, I, B and bit 5 of the
\* status as they were; only Z and N can change.
C2_StepFrame ==
    [][mode = "running" =>
        \A i \in FrameBits : BitAt(status', i) = BitAt(status, i)]_vars

\* C2 witness: an instruction has set N on a status in which C and V were set.
C2_Witness ==
    /\ mode = "running"
    /\ rd # <<>>
    /\ status = FromBits({0, 6, 7})

\* C3 as stated: an unimplemented opcode stops the run as a todo failure with
\* the program counter still at the failing byte and a, x, flags untouched.
C3_Original ==
    [][(\E b \in Byte \ {0, 169, 170, 232} : Fetching(b)) =>
        /\ mode' = "failed"
        /\ err' = "todo"
        /\ pc' = pc
        /\ <<reg_a', reg_x', status'>> = <<reg_a, reg_x, status>>]_vars

\* C3 amended: an unimplemented opcode stops the run with a, x, flags
\* untouched; the program counter has been advanced one past the failing
\* byte (wrapping to 0 from 255), except that with overflow checks on the
\* increment at 255 is itself the failure and the counter stays at 255.
C3_Amended ==
    [][(\E b \in Byte \ {0, 169, 170, 232} : Fetching(b)) =>
        /\ mode' = "failed"
        /\ <<reg_a', reg_x', status'>> = <<reg_a, reg_x, status>>
        /\ IF AtTop
           THEN err' = "overflow" /\ pc' = pc
           ELSE err' = "todo" /\ pc' = (pc + 1) % U8]_vars

\* C3 witness: [0x05, 0x00] on a fresh CPU has failed on its first byte.
C3_Witness ==
    /\ mode = "failed"
    /\ err = "todo"
    /\ program = <<5, 0>>
    /\ setups = 0
    /\ pc = 1
    /\ <<reg_a, reg_x, status>> = <<0, 0, 0>>

\* C4: an opcode fetch or an LDA operand read at or past the program's length
\* stops the run as a bounds failure, and every index read is inside the
\* program.
C4_OutOfBounds ==
    [][/\ (mode = "running" /\ pc >= Len(program)) =>
              (mode' = "failed" /\ err' = "bounds")
       /\ (Fetching(169) /\ ~AtTop /\ (pc + 1) % U8 >= Len(program)) =>
              (mode' = "failed" /\ err' = "bounds")
       /\ \A k \in DOMAIN rd' : rd'[k] < Len(program')]_vars

\* C4 witness: a program ending in a lone 0xA9 has failed on the operand read.
C4_Witness ==
    /\ mode = "failed"
    /\ err = "bounds"
    /\ program = <<232, 169>>
    /\ rd = <<1>>
    /\ pc = 2

\* C5: a loop iteration that ends in failure leaves a, x and the flags as the
\* last completed instruction left them.
C5_FailureKeepsState ==
    [][(mode = "running" /\ mode' = "failed") =>
        <<reg_a', reg_x', status'>> = <<reg_a, reg_x, status>>]_vars

\* C5 witness: LDA #0xAA completed, then an LDA with no operand failed.
C5_Witness ==
    /\ mode = "failed"
    /\ program = <<169, 170, 169>>
    /\ pc0 = 0
    /\ reg_a = 170
    /\ FlagSet(status, "N")

\* C6 as stated: an interpret call that has been entered eventually ends, by
\* halting or by failing.
C6_Terminates == (mode = "running") ~> (mode \in {"halted", "failed"})

\* C7 as stated: whenever 0x00 is fetched as an opcode the run halts with a, x
\* and the flags unchanged, having read the BRK byte only.
C7_BrkTerminal ==
    [][Fetching(0) =>
        /\ mode' = "halted"
        /\ rd' = <<pc>>
        /\ <<reg_a', reg_x', status'>> = <<reg_a, reg_x, status>>]_vars

\* C8: the run halts only on a 0x00 fetched in opcode position; LDA, TAX and
\* INX that complete go back to fetch; [0xA9, 0x00, 0xE8, 0x00] on a fresh
\* CPU halts with a = 0 and x = 1.
C8_HaltOnlyByBrk ==
    /\ [][/\ (mode # "halted" /\ mode' = "halted") => (Fetching(0) /\ rd' = <<pc>>)
          /\ ((Fetching(169) \/ Fetching(170) \/ Fetching(232)) /\ mode' # "failed")
                 => mode' = "running"]_vars
    /\ [](  (mode = "halted" /\ program = <<169, 0, 232, 0>> /\ setups = 0)
         => (reg_a = 0 /\ reg_x = 1))

\* C8 witness: [0xA9, 0x00, 0xE8, 0x00] on a fresh CPU has halted on its last byte.
C8_Witness ==
    /\ mode = "halted"
    /\ program = <<169, 0, 232, 0>>
    /\ setups = 0
    /\ rd = <<3>>
    /\ reg_x = 1

\* C9: an INX that is decoded sets x to (x + 1) mod 256, goes on running, and
\* sets Z and N from the new x; from 0xFF, x becomes 0 with Z set and N clear.
C9_InxWraps ==
    [][(Fetching(232) /\ ~AtTop) =>
        /\ mode' = "running"
        /\ reg_x' = (reg_x + 1) % U8
        /\ ReflectsNZ(status', reg_x')
        /\ (reg_x = U8 - 1) =>
              (reg_x' = 0 /\ FlagSet(status', "Z") /\ ~FlagSet(status', "N"))]_vars

\* C9 witness: x was assigned 0xFF and the first instruction, an INX, made it 0.
C9_Witness ==
    /\ mode = "running"
    /\ pc0 = 0
    /\ rd = <<0>>
    /\ program[1] = 232
    /\ reg_x = 0
    /\ setups > 0
    /\ FlagSet(status, "Z")

\* C10: a TAX that is decoded sets x to the accumulator's value v and Z and N
\* from v; [0xAA, 0x00] with a = 10 halts with x = 10, N and Z clear.
C10_TaxCopies ==
    /\ [][(Fetching(170) /\ ~AtTop) =>
            /\ reg_x' = reg_a
            /\ ReflectsNZ(status', reg_a)]_vars
    /\ [](  (mode = "halted" /\ program = <<170, 0>> /\ pc0 = 0 /\ reg_a = 10)
         => (reg_x = 10 /\ ~FlagSet(status, "N") /\ ~FlagSet(status, "Z")))

\* C10 witness: on a fresh CPU INX made x = 1 with Z clear, then TAX copied
\* a = 0 into x and set Z, and [0xE8, 0xAA, 0x00] has halted.
C10_Witness ==
    /\ mode = "halted"
    /\ program = <<232, 170, 0>>
    /\ pc0 = 0
    /\ setups = 0
    /\ reg_x = 0
    /\ FlagSet(status, "Z")

\* C11 as stated: executing 0xA9 v (the operand v is the program's next byte)
\* sets a to v and Z and N from v, and advances the program counter by 2
\* over exactly the opcode and the operand, so the next fetch is the byte
\* after the operand.
C11_LdaImmediate ==
    [][(Fetching(169) /\ pc + 1 < Len(program)) =>
        /\ mode' = "running"
        /\ reg_a' = program[pc + 2]
        /\ ReflectsNZ(status', program[pc + 2])
        /\ rd' = <<pc, pc + 1>>
        /\ pc' = pc + 2]_vars

\* The documented bit of each flag: N=7, V=6, B=4, D=3, I=2, Z=1, C=0.
BitPosition == [N |-> 7, V |-> 6, B |-> 4, D |-> 3, I |-> 2, Z |-> 1, C |-> 0]

\* C12 as stated: each read accessor n, v, b, d, i, z, c returns 1 when its
\* flag's bit is set in the register and 0 when it is not.
C12_AccessorsReturnBit ==
    call.op = "read" => call.ret = BitAt(call.before, BitPosition[call.bit])

\* C13: set_bit(f) makes bit f 1, unset_bit(f) makes it 0, toggle_bit(f)
\* inverts it, with f at its documented position, and each leaves the other
\* seven bits of the register as they were.
C13_OneBitOnly ==
    LET pos == BitPosition[call.bit]
        old == BitAt(call.before, pos)
        new == BitAt(status, pos)
    IN  (call.op \in {"set_bit", "unset_bit", "toggle_bit"}) =>
            /\ call.op = "set_bit" => new = 1
            /\ call.op = "unset_bit" => new = 0
            /\ call.op = "toggle_bit" => new = 1 - old
            /\ \A k \in (0 .. 7) \ {pos} : BitAt(status, k) = BitAt(call.before, k)

\* C13 witness: toggle_bit(Z) has cleared Z in a register holding all seven
\* flags, leaving the other six set.
C13_Witness ==
    /\ call.op = "toggle_bit"
    /\ call.bit = "Z"
    /\ call.before = FromBits({0, 1, 2, 3, 4, 6, 7})
    /\ status = FromBits({0, 2, 3, 4, 6, 7})

\* C14: the reserved bit 5 of the status register is 0 in every state
\* reached from a fresh CPU by set_bit, unset_bit, toggle_bit calls and
\* interpret runs.
C14_ReservedBitClear == BitAt(status, 5) = 0

\* C14 witness: B was set by the caller, N by an interpret run that has halted.
C14_Witness ==
    /\ mode = "halted"
    /\ setups = MaxSetup
    /\ status = FromBits({4, 7})

\* The program is [0xA9, v, 0xAA, 0xE8, 0x00] for some byte v.
IsLoadTransferIncrement ==
    /\ Len(program) = 5
    /\ <<program[1], program[3], program[4], program[5]>> = <<169, 170, 232, 0>>

\* C15: [0xA9, v, 0xAA, 0xE8, 0x00] on a fresh CPU ends by halting, with
\* a = v, x = (v + 1) mod 256 and Z and N those of the final x; for v = 0xC0,
\* x = 0xC1 with N set and Z clear.
C15_LoadTransferIncrement ==
    (IsLoadTransferIncrement /\ mode \in {"halted", "failed"}) =>
        /\ mode = "halted"
        /\ reg_a = program[2]
        /\ reg_x = (program[2] + 1) % U8
        /\ ReflectsNZ(status, reg_x)
        /\ (program[2] = 192) =>
              (reg_x = 193 /\ FlagSet(status, "N") /\ ~FlagSet(status, "Z"))

\* C15 witness: [0xA9, 0xC0, 0xAA, 0xE8, 0x00] has halted on a fresh CPU with
\* x = 0xC1 and N set.
C15_Witness ==
    /\ mode = "halted"
    /\ program = <<169, 192, 170, 232, 0>>
    /\ rd = <<4>>
    /\ reg_a = 192
    /\ reg_x = 193
    /\ FlagSet(status, "N")

\* The program is k >= 1 bytes of 0xE8 followed by 0x00.
IsInxRun ==
    /\ Len(program) >= 2
    /\ program[Len(program)] = 0
    /\ \A k \in 1 .. (Len(program) - 1) : program[k] = 232

\* C16 as stated: k INX opcodes and a BRK, entered at index 0 with x = x0,
\* end by halting with x = (x0 + k) mod 256 and with Z and N those of that
\* final x, whatever the intermediate results were.
C16_FlagsNotSticky ==
    (IsInxRun /\ pc0 = 0 /\ mode \in {"halted", "failed"}) =>
        /\ mode = "halted"
        /\ reg_x = (reg_x0 + Len(program) - 1) % U8
        /\ ReflectsNZ(status, reg_x)

RECURSIVE ReachesBrk(_, _)
\* Decoding p from index i meets only implemented instructions, each with
\* its operand inside p, up to a 0x00 in opcode position.
ReachesBrk(p, i) ==
    IF i >= Len(p) THEN FALSE
    ELSE CASE p[i + 1] = 0 -> TRUE
           [] p[i + 1] = 169 -> i + 1 < Len(p) /\ ReachesBrk(p, i + 2)
           [] p[i + 1] \in {170, 232} -> ReachesBrk(p, i + 1)
           [] OTHER -> FALSE

\* C17 as stated: a program of at most 256 bytes made of implemented
\* instructions up to a BRK (at index 255 at most) does not fail on a fresh
\* CPU: the run ends by halting at that BRK.
C17_FullyAddressable ==
    (mode \in {"halted", "failed"} /\ Len(program) <= U8 /\ ReachesBrk(program, 0))
        => (mode = "halted" /\ program[rd[1] + 1] = 0)

\* C18: through interpret runs alone (the caller assigning a and x but never
\* the status), Z and N are never both set.
C18_ZNExclusive == ~(FlagSet(status, "Z") /\ FlagSet(status, "N"))

\* C18 witness: the first interpret call halted with N set (x = 255); the
\* second one increments x to 0, which sets Z and clears N.
C18_Witness ==
    /\ runs = 2
    /\ mode = "running"
    /\ program = <<232, 232, 0>>
    /\ pc0 = 0
    /\ reg_x0 = 255
    /\ Len(rd) = 1
    /\ reg_x = 0
    /\ FlagSet(status, "Z")
    /\ ~FlagSet(status, "N")

\* C19 as stated: a fresh CPU starts fetching at index 0; a call made after a
\* run that halted at a BRK at index i starts at index i + 1; and the first
\* byte a call fetches is the one at the counter it started with.
C19_PcCarriesOver ==
    [][/\ (mode = "idle" /\ mode' = "running") => pc0' = 0
       /\ (mode = "halted" /\ mode' = "running") => pc0' = rd[1] + 1
       /\ (mode = "running" /\ rd = <<>> /\ rd' # <<>>) => rd'[1] = pc0]_vars

\* C20: an LDA step leaves the index register unchanged, and a TAX or INX
\* step leaves the accumulator unchanged; during a run the accumulator
\* changes only at an LDA step and the index register only at a TAX or INX
\* step.
C20_RegisterFrame ==
    [][/\ Fetching(169) => reg_x' = reg_x
       /\ (Fetching(170) \/ Fetching(232)) => reg_a' = reg_a
       /\ (mode = "running" /\ reg_a' # reg_a) => Fetching(169)
       /\ (mode = "running" /\ reg_x' # reg_x) => (Fetching(170) \/ Fetching(232))]_vars

\* C20 witness: LDA #5 has run on a CPU whose index register held 10; the
\* accumulator is 5 and the index register is still 10.
C20_Witness ==
    /\ mode = "running"
    /\ program = <<169, 5, 0>>
    /\ pc0 = 0
    /\ rd = <<0, 1>>
    /\ reg_a = 5
    /\ reg_x0 = 10
    /\ reg_x = 10

====
